---- MODULE Spec2Model ----
(***************************************************************************)
(* A model of anki2.py: the extraction of flashcards from Markdown notes,  *)
(* their change detection by an in-document marker, the sync with the      *)
(* AnkiConnect endpoint and the marker rewrite.                            *)
(*                                                                         *)
(* Text is a sequence of tokens.  A token is one character ("-", ">",      *)
(* " ", "\n", a digit) or a run of characters that none of the program's   *)
(* patterns can match inside of (a word such as "front1", the tag          *)
(* "#flashcard", the marker's fixed parts "Meta:id=" and ";sum=", an embed *)
(* "![[d.png]]").  Every string operation of the program is modelled on    *)
(* these sequences as Python defines it.                                   *)
(***************************************************************************)
EXTENDS Integers, Sequences, FiniteSets, TLC

(***************************************************************************)
(* Bounds of the model.                                                    *)
(***************************************************************************)
MaxBlocks == 2
MaxRuns == 2

(***************************************************************************)
(* Python values that are not text: None, str, int.                        *)
(***************************************************************************)
PyNone == [t |-> "None"]
PyStr(s) == [t |-> "str", v |-> s]
PyInt(n) == [t |-> "int", v |-> n]

(***************************************************************************)
(* Characters and their classes.                                           *)
(***************************************************************************)
Whitespace == {" ", "\n"}
Digits == <<"0", "1", "2", "3", "4", "5", "6", "7", "8", "9">>
DigitSet == {Digits[i] : i \in 1..10}
DigitVal(d) == (CHOOSE i \in 1..10 : Digits[i] = d) - 1

\* str(n) of a non-negative int: its decimal digits, no leading zero.
RECURSIVE IntToStr(_)
IntToStr(n) ==
    IF n < 10 THEN <<Digits[n + 1]>>
    ELSE IntToStr(n \div 10) \o <<Digits[(n % 10) + 1]>>

\* int(s) of a string of decimal digits.
RECURSIVE StrToInt(_)
StrToInt(s) ==
    IF Len(s) = 0 THEN 0
    ELSE 10 * StrToInt(SubSeq(s, 1, Len(s) - 1)) + DigitVal(s[Len(s)])

\* str(x) as an f-string formats it.
Format(x) ==
    CASE x.t = "None" -> <<"None">>
      [] x.t = "str" -> x.v
      [] x.t = "int" -> IntToStr(x.v)

(***************************************************************************)
(* str methods.                                                            *)
(***************************************************************************)
\* s[i:i+len(p)] == p
StartsAt(s, i, p) ==
    /\ i >= 1
    /\ i + Len(p) - 1 <= Len(s)
    /\ \A k \in 1..Len(p) : s[i + k - 1] = p[k]

\* str.split(sep), sep not empty: the pieces between the non-overlapping
\* occurrences of sep found left to right.
RECURSIVE SplitFrom(_, _, _, _)
SplitFrom(s, sep, i, cur) ==
    IF i > Len(s) THEN <<cur>>
    ELSE IF StartsAt(s, i, sep)
         THEN <<cur>> \o SplitFrom(s, sep, i + Len(sep), <<>>)
         ELSE SplitFrom(s, sep, i + 1, Append(cur, s[i]))

Split(s, sep) == SplitFrom(s, sep, 1, <<>>)

\* str.strip()
RECURSIVE LStrip(_)
LStrip(s) ==
    IF Len(s) > 0 /\ s[1] \in Whitespace THEN LStrip(Tail(s)) ELSE s

RECURSIVE RStrip(_)
RStrip(s) ==
    IF Len(s) > 0 /\ s[Len(s)] \in Whitespace
    THEN RStrip(SubSeq(s, 1, Len(s) - 1)) ELSE s

Strip(s) == RStrip(LStrip(s))

\* str.replace(old, new), old not empty: every non-overlapping occurrence of
\* old, found left to right, is replaced.
RECURSIVE ReplaceFrom(_, _, _, _)
ReplaceFrom(s, old, new, i) ==
    IF i > Len(s) THEN <<>>
    ELSE IF StartsAt(s, i, old)
         THEN new \o ReplaceFrom(s, old, new, i + Len(old))
         ELSE <<s[i]>> \o ReplaceFrom(s, old, new, i + 1)

Replace(s, old, new) == ReplaceFrom(s, old, new, 1)

(***************************************************************************)
(* The patterns of the program (lines 18, 79-81).                          *)
(***************************************************************************)
\* '---'
FLASHCARD_SEPARATOR == <<"-", "-", "-">>

\* (?i)#flashcard\s* : the tag in any letter case, then a run of whitespace.
\* The tokens below are the spellings of the tag the model writes.
TagTokens == {"#flashcard", "#Flashcard"}

\* The fixed parts of <!--Meta:id=(\d+)(?:;sum=(-?\d+))?-->
MetaOpen == <<"<!", "-", "-", "Meta:id=">>
MetaSum == ";sum="
MetaClose == <<"-", "-", ">">>

\* !\[\[(.*?)\]\] : an embed token and the filename it captures.
EmbedTable ==
    <<[token |-> "![[d.png]]", name |-> "d.png", img |-> "<img src='d.png' />"],
      [token |-> "![[e.png]]", name |-> "e.png", img |-> "<img src='e.png' />"]>>
EmbedTokens == {EmbedTable[i].token : i \in 1..Len(EmbedTable)}
EmbedEntry(tok) == EmbedTable[CHOOSE i \in 1..Len(EmbedTable) : EmbedTable[i].token = tok]

\* The length of the longest run of tokens of class cls that starts at s[i].
RECURSIVE RunLen(_, _, _)
RunLen(s, i, cls) ==
    IF i <= Len(s) /\ s[i] \in cls THEN 1 + RunLen(s, i + 1, cls) ELSE 0

\* re.split(FLASHCARD_REGEX, s): the pieces between the matches of the tag
\* pattern, each match taking the tag and all whitespace after it.
RECURSIVE ReSplitFrom(_, _, _)
ReSplitFrom(s, i, cur) ==
    IF i > Len(s) THEN <<cur>>
    ELSE IF s[i] \in TagTokens
         THEN <<cur>> \o ReSplitFrom(s, i + 1 + RunLen(s, i + 1, Whitespace), <<>>)
         ELSE ReSplitFrom(s, i + 1, Append(cur, s[i]))

ReSplitTag(s) == ReSplitFrom(s, 1, <<>>)

\* A match of ANKI_META_REGEX that starts at s[i]: [ok, id, sum, len].  The
\* digit runs are greedy and what follows a run is never a digit, so the
\* match at a position is unique.  j is where the id's digits start, k where
\* they end, d where the sum's digits start, e where the closing --> starts.
MetaFail == [ok |-> FALSE, id |-> PyNone, sum |-> PyNone, len |-> 0]
MetaHit(s, i, j, k, sum, e) ==
    [ok |-> TRUE, id |-> PyStr(SubSeq(s, j, k - 1)), sum |-> sum,
     len |-> e + Len(MetaClose) - i]

\* -? : a sign is taken when a digit follows it.
SignLen(s, k) ==
    IF k + 2 <= Len(s) /\ s[k + 1] = "-" /\ s[k + 2] \in DigitSet THEN 1 ELSE 0

MetaSumEnd(s, i, j, k, d, e) ==
    IF e > d /\ StartsAt(s, e, MetaClose)
    THEN MetaHit(s, i, j, k, PyStr(SubSeq(s, k + 1, e - 1)), e)
    ELSE MetaFail

MetaAfterId(s, i, j, k) ==
    IF k <= Len(s) /\ s[k] = MetaSum
    THEN MetaSumEnd(s, i, j, k, k + 1 + SignLen(s, k),
                    k + 1 + SignLen(s, k) + RunLen(s, k + 1 + SignLen(s, k), DigitSet))
    ELSE IF StartsAt(s, k, MetaClose) THEN MetaHit(s, i, j, k, PyNone, k)
    ELSE MetaFail

MetaMatchAt(s, i) ==
    IF StartsAt(s, i, MetaOpen) /\ RunLen(s, i + Len(MetaOpen), DigitSet) >= 1
    THEN MetaAfterId(s, i, i + Len(MetaOpen),
                     i + Len(MetaOpen) + RunLen(s, i + Len(MetaOpen), DigitSet))
    ELSE MetaFail

\* re.sub(ANKI_META_REGEX, '', s): every match, left to right, is removed.
RECURSIVE MetaSubFrom(_, _)
MetaSubFrom(s, i) ==
    IF i > Len(s) THEN <<>>
    ELSE IF MetaMatchAt(s, i).ok
         THEN MetaSubFrom(s, i + MetaMatchAt(s, i).len)
         ELSE <<s[i]>> \o MetaSubFrom(s, i + 1)

MetaSub(s) == MetaSubFrom(s, 1)

\* re.findall(EMBED_FILENAME_REGEX, s) as the set that medias.update makes of it.
EmbedNames(s) == {EmbedEntry(s[i]).name : i \in {k \in 1..Len(s) : s[k] \in EmbedTokens}}

(***************************************************************************)
(* zlib.crc32 and markdown2.markdown are library code.  crc32 is modelled  *)
(* as a deterministic checksum of the text (its value depends on every     *)
(* token and on their order), non-negative as in Python 3 and kept to 16   *)
(* bits so that the arithmetic stays in range; markdown is modelled as     *)
(* wrapping the text in a paragraph.                                       *)
(***************************************************************************)
Alphabet == <<" ", "\n", "-", ">", "<!", "Meta:id=", ";sum=", "#flashcard",
              "#Flashcard", "![[d.png]]", "None", "A", "front1", "back1",
              "notacard", "q", "x", "y", "a", "|">> \o Digits \o <<"![[e.png]]">>
Code(tok) == CHOOSE i \in 1..Len(Alphabet) : Alphabet[i] = tok

RECURSIVE crc32(_)
crc32(s) ==
    IF Len(s) = 0 THEN 0
    ELSE (crc32(SubSeq(s, 1, Len(s) - 1)) * 31 + Code(s[Len(s)])) % (2 ^ 16)

markdown(s) == <<"<p>">> \o s \o <<"</p>", "\n">>

(***************************************************************************)
(* class Flashcard (lines 17-75).                                          *)
(***************************************************************************)
STATE_INSERT == "INSERT"
STATE_UPDATE == "UPDATE"
STATE_NONE == "None"

\* __init__
Flashcard(front, back) ==
    [front |-> front, back |-> back, medias |-> {}, state |-> STATE_NONE,
     back_html |-> PyNone, front_html |-> PyNone, card_sum |-> PyNone,
     checksum |-> PyNone, anki_id |-> PyNone, meta_value |-> PyNone]

\* _extract_anki_meta: re.search takes the leftmost match.
MetaAt(text, i, m) ==
    [anki_id |-> m.id, checksum |-> m.sum,
     meta_value |-> PyStr(SubSeq(text, i, i + m.len - 1))]

RECURSIVE MetaSearchFrom(_, _)
MetaSearchFrom(text, i) ==
    IF i > Len(text)
    THEN [anki_id |-> PyNone, checksum |-> PyNone, meta_value |-> PyNone]
    ELSE IF MetaMatchAt(text, i).ok THEN MetaAt(text, i, MetaMatchAt(text, i))
    ELSE MetaSearchFrom(text, i + 1)

ExtractAnkiMeta(text) == MetaSearchFrom(text, 1)

\* _generate_card_sum, were the marker left in the text that is summed.
GenerateCardSumRaw(c) == crc32(c.front \o Strip(c.back))

\* _generate_card_sum
GenerateCardSum(c) == crc32(c.front \o Strip(MetaSub(c.back)))

\* _convert_to_html: the embeds of the rendered text become img tags.
ImgTags(html) ==
    [i \in 1..Len(html) |->
        IF html[i] \in EmbedTokens THEN EmbedEntry(html[i]).img ELSE html[i]]
ConvertToHtml(text) == ImgTags(markdown(text))

\* _extract_medias, were the front not searched.
ExtractMediasBackOnly(c) == c.medias \cup EmbedNames(c.back)

\* _extract_medias
ExtractMedias(c) == c.medias \cup EmbedNames(c.front) \cup EmbedNames(c.back)

\* StateOf, were card_sum compared with the marker's text without str().
StateOfNoStr(c) ==
    IF c.anki_id = PyNone THEN STATE_INSERT
    ELSE IF c.card_sum # c.checksum THEN STATE_UPDATE
    ELSE STATE_NONE

\* analyze, lines 38-43: the state of a card with its marker and sum set.
StateOf(c) ==
    IF c.anki_id = PyNone THEN STATE_INSERT
    ELSE IF PyStr(IntToStr(c.card_sum.v)) # c.checksum THEN STATE_UPDATE
    ELSE STATE_NONE

\* analyze, lines 45-47
Render(c, state) ==
    [c EXCEPT !.state = state,
              !.front_html = PyStr(ConvertToHtml(c.front)),
              !.back_html = PyStr(ConvertToHtml(c.back)),
              !.medias = ExtractMedias(c)]

\* analyze, lines 35-36
WithMeta(c, meta, sum) ==
    [c EXCEPT !.anki_id = meta.anki_id, !.checksum = meta.checksum,
              !.meta_value = meta.meta_value, !.card_sum = PyInt(sum)]

\* Classify, were the early return of line 43 missing.
ClassifyNoReturn(c) == Render(c, StateOf(c))

\* analyze, lines 38-47
Classify(c) == IF StateOf(c) = STATE_NONE THEN c ELSE Render(c, StateOf(c))

\* analyze
Analyze(c) == Classify(WithMeta(c, ExtractAnkiMeta(c.back), GenerateCardSum(c)))

\* NewMetaValue, were the comment left open.
NewMetaValueOpen(c) ==
    MetaOpen \o Format(c.anki_id) \o <<MetaSum>> \o Format(c.card_sum)

\* NewMetaValue, were the id written anew instead of kept.
NewMetaValueFreshId(c) ==
    MetaOpen \o <<"9">> \o <<MetaSum>> \o Format(c.card_sum) \o MetaClose

\* The marker text update_meta formats.
NewMetaValue(c) ==
    MetaOpen \o Format(c.anki_id) \o <<MetaSum>> \o Format(c.card_sum) \o MetaClose

\* update_meta: the new text, or TypeError when str.replace is given None.
TypeError == [t |-> "TypeError"]
UpdateMeta(c, origin) ==
    IF c.state = STATE_NONE THEN PyStr(origin)
    ELSE IF c.meta_value = PyNone THEN TypeError
    ELSE PyStr(Replace(origin, c.meta_value.v, NewMetaValue(c)))

(***************************************************************************)
(* class MarkdownFlashcardExtractor (lines 78-103).                        *)
(***************************************************************************)
\* _parse_flashcards, were a block with more than two parts kept as well.
ParseFlashcardsTwoOrMore(content) ==
    LET cards_raw == Split(content, FLASHCARD_SEPARATOR)
        parts(i) == ReSplitTag(cards_raw[i])
        kept == SelectSeq([i \in 1..Len(cards_raw) |-> i], LAMBDA i : Len(parts(i)) >= 2)
    IN  [k \in 1..Len(kept) |->
            Flashcard(Strip(parts(kept[k])[1]), Strip(parts(kept[k])[2]))]

\* _parse_flashcards
ParseFlashcards(content) ==
    LET cards_raw == Split(content, FLASHCARD_SEPARATOR)
        parts(i) == ReSplitTag(cards_raw[i])
        kept == SelectSeq([i \in 1..Len(cards_raw) |-> i], LAMBDA i : Len(parts(i)) = 2)
    IN  [k \in 1..Len(kept) |->
            Flashcard(Strip(parts(kept[k])[1]), Strip(parts(kept[k])[2]))]

\* update_content, lines 257-259: the cards' replacements applied in turn to
\* the accumulating text; the first TypeError ends the loop.
RECURSIVE UpdateAll(_, _, _)
UpdateAll(cards, i, data) ==
    IF i > Len(cards) THEN PyStr(data)
    ELSE LET r == UpdateMeta(cards[i], data)
         IN  IF r = TypeError THEN TypeError ELSE UpdateAll(cards, i + 1, r.v)

(***************************************************************************)
(* The vault: the notes of the folder, in the order os.listdir gives them. *)
(* A note is blocks joined by separator lines; a card block is a front, the*)
(* tag, a back and possibly a marker.  The markers written in the notes    *)
(* are the marker of a card that was synced as q/x under id 1 (its back    *)
(* may have been edited since) and a marker that carries only an id, 2.    *)
(***************************************************************************)
Front == <<"q">>
Backs == {<<"x">>, <<"y", " ", "![[d.png]]">>}

Marker(id, sum) ==
    MetaOpen \o id \o (IF sum = <<>> THEN <<>> ELSE <<MetaSum>> \o sum) \o MetaClose
Markers == {<<>>,
            Marker(<<"1">>, IntToStr(crc32(Front \o <<"x">>))),
            Marker(<<"2">>, <<>>)}

CardBlock(back, marker) ==
    Front \o <<"\n", "#flashcard", "\n">> \o back
          \o (IF marker = <<>> THEN <<>> ELSE <<"\n">> \o marker)
Blocks == {CardBlock(b, m) : b \in Backs, m \in Markers} \cup {<<"notacard">>}

RECURSIVE JoinBlocks(_)
JoinBlocks(bs) ==
    IF Len(bs) = 1 THEN bs[1]
    ELSE bs[1] \o <<"\n">> \o FLASHCARD_SEPARATOR \o <<"\n">> \o JoinBlocks(Tail(bs))

Notes(n) == {JoinBlocks(bs) : bs \in [1..n -> Blocks]}

\* Every way to write at most MaxBlocks blocks into notes.
RECURSIVE VaultsOf(_)
VaultsOf(n) ==
    {<<>>} \cup
    UNION {{<<d>> \o v : d \in Notes(k), v \in VaultsOf(n - k)} : k \in 1..n}
Vaults == VaultsOf(MaxBlocks)

(***************************************************************************)
(* The state of a run of main.                                             *)
(***************************************************************************)
VARIABLES
    files,            \* the text of each note of the folder
    pc,               \* where main stands
    run,              \* the number of the run of main
    file_idx,         \* the position of main's loop in markdown_files
    flashcards,       \* make_cards' list of the current note
    card_idx,         \* the position of make_cards' loop in flashcards
    original_content, \* the text make_cards read
    next_id,          \* the id the remote store gives the next note
    app_json,         \* the vault's .obsidian/app.json, as open and json.load find it
    attachments,      \* the files under the vault's attachment folder: how each reads
    dict_cache,       \* AttachmentManager.dict_cache
    before,           \* history: the notes as the run found them
    log,              \* history: the run's analyses, remote calls, writes, errors
    past              \* history: what the earlier runs did

vars == <<files, pc, run, file_idx, flashcards, card_idx,
          original_content, next_id, app_json, attachments, dict_cache,
          before, log, past>>

Event(ev, card, arg, out) ==
    [ev |-> ev, run |-> run, file |-> file_idx, card |-> card, arg |-> arg, out |-> out]

\* The vault's app.json names the attachment folder, which holds d.png.
Init ==
    /\ files \in Vaults
    /\ pc = "idle"
    /\ run = 0
    /\ file_idx = 0
    /\ flashcards = <<>>
    /\ card_idx = 0
    /\ original_content = <<>>
    /\ next_id = 3
    /\ app_json = "ok"
    /\ attachments = [n \in {"d.png"} |-> "content"]
    /\ dict_cache = PyNone
    /\ before = files
    /\ log = <<>>
    /\ past = [runs |-> 0, clean |-> TRUE, states |-> {}, created |-> {}]

(***************************************************************************)
(* The answers of the AnkiConnect endpoint, as AnkiConnect.invoke sees     *)
(* them (lines 115-121): requests.post or response.json raises ("raise"),  *)
(* or the decoded answer is returned: with the result ("ok"), or with an   *)
(* error text and a null result ("error").  invoke catches nothing.        *)
(***************************************************************************)
AddNoteAnswers == {"ok", "error", "raise"}
UpdateNoteAnswers == {"ok", "error", "raise"}
DeckNamesAnswers == {"listed", "unlisted"}

\* main's step to the next note (line 279).
NextFile(i) == IF i + 1 <= Len(files) THEN "make_cards" ELSE "done"

\* History: the log of a finished run, added to what is known of the
\* earlier ones.  clean: every run so far got an "ok" (or "listed") from the
\* remote store for each of its calls; states: the states analyze gave;
\* created: the cards, as <<note, card>>, that addNote has answered "ok" for.
Remember(p, l) ==
    [runs |-> p.runs + 1,
     clean |-> p.clean /\ \A i \in 1..Len(l) :
                  l[i].ev \in {"deckNames", "addNote", "updateNoteFields", "storeMediaFile"}
                      => l[i].out \in {"ok", "listed"},
     states |-> p.states \cup {l[i].out : i \in {k \in 1..Len(l) : l[k].ev = "analyze"}},
     created |-> p.created \cup
                 {<<l[i].file, l[i].card>> :
                     i \in {k \in 1..Len(l) : l[k].ev = "addNote" /\ l[k].out = "ok"}}]

\* main, lines 267-278: the folder is listed, the collaborators are built and
\* prepare_deck runs.  prepare_deck (lines 250-253) calls create_deck with
\* an argument the method does not take when the deck is not listed.
Main ==
    /\ pc \in {"idle", "done", "crashed"}
    /\ run < MaxRuns
    /\ \E answer \in DeckNamesAnswers :
          /\ run' = run + 1
          /\ file_idx' = 0
          /\ before' = files
          /\ flashcards' = <<>>
          /\ card_idx' = 0
          /\ original_content' = <<>>
          /\ pc' = IF answer = "listed" THEN NextFile(0) ELSE "crashed"
          /\ past' = IF run = 0 THEN past ELSE Remember(past, log)
          /\ log' =
                <<[ev |-> "deckNames", run |-> run + 1, file |-> 0, card |-> 0,
                   arg |-> <<>>, out |-> answer]>> \o
                (IF answer = "unlisted"
                 THEN <<[ev |-> "raise", run |-> run + 1, file |-> 0, card |-> 0,
                         arg |-> <<"create_deck">>, out |-> "TypeError"]>>
                 ELSE <<>>)
          /\ dict_cache' = PyNone
    /\ UNCHANGED <<files, next_id, app_json, attachments>>

\* make_cards, lines 210-211: the note is read and parsed.
ExtractFlashcards ==
    /\ pc = "make_cards"
    /\ file_idx' = file_idx + 1
    /\ original_content' = files[file_idx + 1]
    /\ flashcards' = ParseFlashcards(files[file_idx + 1])
    /\ card_idx' = 1
    /\ pc' = IF Len(ParseFlashcards(files[file_idx + 1])) = 0
             THEN "sync_medias" ELSE "sync_card"
    /\ UNCHANGED <<files, run, next_id, app_json, attachments, dict_cache,
                   before, log, past>>

\* sync_card, lines 222-229, on an analysed card: the card after the call
\* that answered `answer` (not "raise").
SyncCard(c, answer) ==
    IF c.state = STATE_INSERT /\ answer \in {"ok", "error"}
    THEN [c EXCEPT !.anki_id = IF answer = "ok" THEN PyInt(next_id) ELSE PyNone]
    ELSE c

\* make_cards, lines 212-218: one turn of the loop.
MakeCard ==
    /\ pc = "sync_card"
    /\ LET c == Analyze(flashcards[card_idx])
           analysed == Event("analyze", card_idx, <<>>, c.state)
           after == IF card_idx = Len(flashcards) THEN "sync_medias" ELSE "sync_card"
       IN  IF c.state = STATE_NONE
           THEN /\ flashcards' = [flashcards EXCEPT ![card_idx] = c]
                /\ card_idx' = card_idx + 1
                /\ pc' = after
                /\ log' = Append(log, analysed)
                /\ next_id' = next_id
           ELSE \E answer \in IF c.state = STATE_UPDATE
                              THEN UpdateNoteAnswers ELSE AddNoteAnswers :
                /\ flashcards' = [flashcards EXCEPT ![card_idx] =
                                     IF answer = "raise" THEN c ELSE SyncCard(c, answer)]
                /\ card_idx' = IF answer = "raise" THEN card_idx ELSE card_idx + 1
                /\ pc' = IF answer = "raise" THEN "crashed" ELSE after
                /\ next_id' = IF c.state = STATE_INSERT /\ answer = "ok"
                              THEN next_id + 1 ELSE next_id
                /\ log' = log \o <<analysed>> \o
                      <<Event(IF c.state = STATE_UPDATE THEN "updateNoteFields" ELSE "addNote",
                              card_idx,
                              IF c.state = STATE_UPDATE
                              THEN IntToStr(StrToInt(c.anki_id.v))
                              ELSE IF answer = "ok" THEN IntToStr(next_id) ELSE <<>>,
                              answer)>> \o
                      (IF answer = "raise"
                       THEN <<Event("raise", card_idx, <<"invoke">>, "RequestException")>>
                       ELSE <<>>)
    /\ UNCHANGED <<files, run, file_idx, original_content,
                   app_json, attachments, dict_cache, before, past>>

\* The orders a set can be iterated in.
Orders(S) == {o \in [1..Cardinality(S) -> S] : \A x \in S : \E i \in DOMAIN o : o[i] = x}

(***************************************************************************)
(* class AttachmentManager (lines 150-201).  app.json is "ok" (an object   *)
(* with an attachmentFolderPath), "missing", "invalid" (not JSON),         *)
(* "noentry" (an object without attachmentFolderPath) or "denied" (open    *)
(* raises PermissionError, which line 177 does not catch).  A file of the  *)
(* index reads as "content", as "empty" (no bytes: its base64 text is '')  *)
(* or is "unreadable" (FileNotFoundError or IOError, lines 195-198).       *)
(***************************************************************************)
AppJsonStates == {"ok", "missing", "invalid", "noentry", "denied"}
ReadOutcomes == {"content", "empty", "unreadable"}
PermissionError == [t |-> "PermissionError"]
PyDict(keys) == [t |-> "dict", v |-> keys]

\* _extract_attachment_folder_path, were JSONDecodeError not caught.
ExtractAttachmentFolderPathNoCatch(config) ==
    CASE config = "ok" -> PyStr(<<"attachments">>)
      [] config \in {"missing", "noentry"} -> PyStr(<<>>)
      [] config \in {"invalid", "denied"} -> PermissionError

\* _extract_attachment_folder_path
ExtractAttachmentFolderPath(config) ==
    CASE config = "ok" -> PyStr(<<"attachments">>)
      [] config \in {"missing", "invalid", "noentry"} -> PyStr(<<>>)
      [] config = "denied" -> PermissionError

\* _build_attachment_dict: the keys of the dictionary, folder being the
\* files that os.walk finds.
BuildAttachmentDict(config, folder) ==
    IF ExtractAttachmentFolderPath(config) = PermissionError THEN PermissionError
    ELSE IF ExtractAttachmentFolderPath(config).v = <<>> THEN PyDict({})
    ELSE PyDict(DOMAIN folder)

\* attachment_dict
AttachmentDict(cache, config, folder) ==
    IF cache = PyNone THEN BuildAttachmentDict(config, folder) ELSE cache

\* get_file_base64_content: what the lookup of filename comes to.  "absent"
\* and "unreadable" return None, "empty" returns ''.
GetFileBase64Content(filename, dict, folder) ==
    IF filename \in dict.v THEN folder[filename] ELSE "absent"

\* HasContent, were every lookup's result pushed.
HasContentAlways(got) == TRUE

\* sync_medias, line 240: None and '' are false.
HasContent(got) == got = "content"

\* sync_medias, lines 232-233
MediasOf(cards) == UNION {cards[i].medias : i \in 1..Len(cards)}

\* sync_medias, lines 238-241: the lookups and the storeMediaFile calls of
\* the loop from position i of the iteration order on; a call that raises
\* ends the loop.
RECURSIVE MediaEvents(_, _, _, _, _)
MediaCall(order, i, dict, folder, answers) ==
    <<Event("storeMediaFile", 0, <<order[i]>>, answers[order[i]])>> \o
    (IF answers[order[i]] = "raise" THEN <<>>
     ELSE MediaEvents(order, i + 1, dict, folder, answers))
MediaEvents(order, i, dict, folder, answers) ==
    IF i > Len(order) THEN <<>>
    ELSE <<Event("get_file", 0, <<order[i]>>,
                 GetFileBase64Content(order[i], dict, folder))>> \o
         (IF HasContent(GetFileBase64Content(order[i], dict, folder))
          THEN MediaCall(order, i, dict, folder, answers)
          ELSE MediaEvents(order, i + 1, dict, folder, answers))

StoreMediaAnswers == {"ok", "raise"}
Raised(events) == Len(events) > 0 /\ events[Len(events)].out = "raise"

\* sync_medias, lines 231-241.  The index is built at the first lookup of
\* the run; order is the set's iteration order, answers what the remote
\* store does with each storeMediaFile call.
SyncMedias ==
    /\ pc = "sync_medias"
    /\ IF MediasOf(flashcards) = {}
       THEN /\ pc' = "update_content"
            /\ UNCHANGED <<log, dict_cache>>
       ELSE IF AttachmentDict(dict_cache, app_json, attachments) = PermissionError
       THEN /\ pc' = "crashed"
            /\ log' = log \o <<Event("app.json", 0, <<>>, app_json),
                                Event("raise", 0, <<"app.json">>, "PermissionError")>>
            /\ UNCHANGED dict_cache
       ELSE \E order \in Orders(MediasOf(flashcards)) :
            \E answers \in [MediasOf(flashcards) -> StoreMediaAnswers] :
               /\ dict_cache' = AttachmentDict(dict_cache, app_json, attachments)
               /\ log' = log \o
                     (IF dict_cache = PyNone
                      THEN <<Event("app.json", 0, <<>>, app_json)>> ELSE <<>>) \o
                     MediaEvents(order, 1, AttachmentDict(dict_cache, app_json, attachments),
                                 attachments, answers)
               /\ pc' = IF Raised(MediaEvents(order, 1,
                                     AttachmentDict(dict_cache, app_json, attachments),
                                     attachments, answers))
                        THEN "crashed" ELSE "update_content"
    /\ UNCHANGED <<files, run, file_idx, flashcards, card_idx, original_content,
                   next_id, app_json, attachments, before, past>>

\* Changed, were the text written back whatever it is.
ChangedAlways(data, original) == TRUE

\* update_content, line 261: the test that guards the write.
Changed(data, original) == data # original

\* update_content, lines 256-263, and main's step to the next note.
UpdateContent ==
    /\ pc = "update_content"
    /\ LET data == UpdateAll(flashcards, 1, original_content)
       IN  IF data = TypeError
           THEN /\ pc' = "crashed"
                /\ files' = files
                /\ log' = Append(log, Event("raise", 0, <<"update_meta">>, "TypeError"))
           ELSE /\ pc' = NextFile(file_idx)
                /\ files' = IF Changed(data.v, original_content)
                            THEN [files EXCEPT ![file_idx] = data.v] ELSE files
                /\ log' = IF Changed(data.v, original_content)
                          THEN Append(log, Event("write", 0, <<>>, "ok")) ELSE log
    /\ UNCHANGED <<run, file_idx, flashcards, card_idx, original_content,
                   next_id, app_json, attachments, dict_cache, before, past>>

Next ==
    \/ Main
    \/ ExtractFlashcards
    \/ MakeCard
    \/ SyncMedias
    \/ UpdateContent

Spec == Init /\ [][Next]_vars

(***************************************************************************)
(* Two further sets of inputs.                                             *)
(*                                                                         *)
(* SpecParse: _parse_flashcards on every text of at most MaxLen tokens     *)
(* over ParseAlphabet and on the example text; the state is main's after   *)
(* prepare_deck, the vault holding the one note.                           *)
(*                                                                         *)
(* SpecCards: runs of main on a vault of one note of one card, whose back  *)
(* carries every marker of MarkerTexts (and texts that are no marker) at   *)
(* its end, at its start, or followed by a second marker.                  *)
(***************************************************************************)
MaxLen == 6

ParseAlphabet == {"a", "\n", "-", "#flashcard", "#Flashcard"}
ExampleText ==
    <<"A", "\n", "-", "-", "-", "\n", "front1", "\n", "#flashcard", "\n", "back1",
      "\n", "-", "-", "-", "\n", "notacard">>
ParseTexts ==
    UNION {[1..n -> ParseAlphabet] : n \in 0..MaxLen} \cup {ExampleText}

AfterPrepareDeck ==
    /\ pc = "make_cards"
    /\ run = 1
    /\ file_idx = 0
    /\ flashcards = <<>>
    /\ card_idx = 0
    /\ original_content = <<>>
    /\ next_id = 3
    /\ app_json = "ok"
    /\ attachments = [n \in {"d.png"} |-> "content"]
    /\ dict_cache = PyNone
    /\ before = files
    /\ log = <<[ev |-> "deckNames", run |-> 1, file |-> 0, card |-> 0,
                arg |-> <<>>, out |-> "listed"]>>
    /\ past = [runs |-> 0, clean |-> TRUE, states |-> {}, created |-> {}]

InitParse ==
    /\ files \in {<<t>> : t \in ParseTexts}
    /\ AfterPrepareDeck

NextParse == ExtractFlashcards

SpecParse == InitParse /\ [][NextParse]_vars

SumOfX == IntToStr(crc32(Front \o <<"x">>))
SumTexts == {<<>>, SumOfX, <<"0">> \o SumOfX, <<"-">> \o SumOfX, <<"7">>}
MarkerTexts ==
    {Marker(id, sum) : id \in {<<"1">>, <<"0", "7">>}, sum \in SumTexts}
NoMarkerTexts ==
    {MetaOpen \o MetaClose,
     MetaOpen \o <<"1", MetaSum>> \o MetaClose,
     MetaOpen \o <<"1", MetaSum, "-">> \o MetaClose,
     MetaOpen \o <<"1", MetaSum, "7">> \o <<"-", ">">>}
MarkedBacks ==
    {<<"x">>, <<"y">>}
    \cup {b \o <<"\n">> \o m : b \in {<<"x">>, <<"y">>}, m \in MarkerTexts \cup NoMarkerTexts}
    \cup {m \o <<"\n", "x">> : m \in MarkerTexts}
    \cup {<<"x", "\n">> \o m \o Marker(<<"2">>, SumOfX) : m \in MarkerTexts \cup NoMarkerTexts}
MarkedNotes == {CardBlock(b, <<>>) : b \in MarkedBacks}

InitCards ==
    /\ files \in {<<n>> : n \in MarkedNotes}
    /\ pc = "idle"
    /\ run = 0
    /\ file_idx = 0
    /\ flashcards = <<>>
    /\ card_idx = 0
    /\ original_content = <<>>
    /\ next_id = 3
    /\ app_json = "ok"
    /\ attachments = [n \in {"d.png"} |-> "content"]
    /\ dict_cache = PyNone
    /\ before = files
    /\ log = <<>>
    /\ past = [runs |-> 0, clean |-> TRUE, states |-> {}, created |-> {}]

SpecCards == InitCards /\ [][Next]_vars

(***************************************************************************)
(* SpecMedia: runs of main on a vault of one note of one or two cards that *)
(* embed files, in the front or in the back, one file in both cards.  A    *)
(* card has no marker, a marker with its id only, or the marker of its     *)
(* text; the second card's id is 2.  The vault's app.json is in any of     *)
(* AppJsonStates; with app.json "ok" each embedded file is not in the      *)
(* attachment folder or reads in any of ReadOutcomes, otherwise the folder *)
(* holds both files.                                                       *)
(***************************************************************************)
MediaNames == {EmbedTable[i].name : i \in 1..Len(EmbedTable)}
MediaCards ==
    <<[front |-> <<"q">>, back |-> <<"y", " ", "![[d.png]]">>, id |-> <<"1">>],
      [front |-> <<"![[e.png]]">>, back |-> <<"x", " ", "![[d.png]]">>, id |-> <<"2">>]>>
MarkerKinds == {"none", "id", "sum"}
MarkerOf(c, kind) ==
    CASE kind = "none" -> <<>>
      [] kind = "id" -> Marker(c.id, <<>>)
      [] kind = "sum" -> Marker(c.id, IntToStr(crc32(c.front \o c.back)))
MediaBlock(c, kind) ==
    c.front \o <<"\n", "#flashcard", "\n">> \o c.back
            \o (IF kind = "none" THEN <<>> ELSE <<"\n">> \o MarkerOf(c, kind))
MediaNotes ==
    {MediaBlock(MediaCards[i], k) : i \in 1..2, k \in MarkerKinds}
    \cup {JoinBlocks(<<MediaBlock(MediaCards[1], k1), MediaBlock(MediaCards[2], k2)>>) :
             k1 \in MarkerKinds, k2 \in MarkerKinds}
Folders == UNION {[names -> ReadOutcomes] : names \in SUBSET MediaNames}

InitMedia ==
    /\ files \in {<<n>> : n \in MediaNotes}
    /\ pc = "idle"
    /\ run = 0
    /\ file_idx = 0
    /\ flashcards = <<>>
    /\ card_idx = 0
    /\ original_content = <<>>
    /\ next_id = 3
    /\ app_json \in AppJsonStates
    /\ attachments \in IF app_json = "ok" THEN Folders
                        ELSE {[n \in MediaNames |-> "content"]}
    /\ dict_cache = PyNone
    /\ before = files
    /\ log = <<>>
    /\ past = [runs |-> 0, clean |-> TRUE, states |-> {}, created |-> {}]

SpecMedia == InitMedia /\ [][Next]_vars

(***************************************************************************)
(* What the properties speak of.                                              *)
(***************************************************************************)
\* The run has ended: main returned or an exception left it.
RunEnded == run >= 1 /\ pc \in {"done", "crashed"}

\* update_content has returned for the current note, whose cards flashcards
\* still holds.
UpdateContentReturned == pc \in {"make_cards", "done"} /\ file_idx >= 1

\* update_content raised on the current note.
UpdateContentRaised ==
    pc = "crashed" /\ Len(log) > 0 /\ log[Len(log)].arg = <<"update_meta">>

\* _parse_flashcards has just returned.
JustParsed == pc \in {"sync_card", "sync_medias"} /\ card_idx = 1

\* The positions in l of the calls that create or update a note.
Calls(l) == {i \in 1..Len(l) : l[i].ev \in {"addNote", "updateNoteFields"}}

\* analyze has run on card k of the current note.
Analysed(k) ==
    \E i \in 1..Len(log) :
        log[i].ev = "analyze" /\ log[i].file = file_idx /\ log[i].card = k

\* The marker of card k of a note's text, as the marker pattern reads it.
NoMarker == [anki_id |-> PyNone, checksum |-> PyNone, meta_value |-> PyNone]
MarkerIn(text, k) ==
    IF k <= Len(ParseFlashcards(text))
    THEN ExtractAnkiMeta(ParseFlashcards(text)[k].back)
    ELSE NoMarker

\* What a marker is, said without the search: <!--Meta:id= , digits, then
\* possibly ;sum= , possibly a sign, digits, then --> .
AllDigits(u) == Len(u) >= 1 /\ \A i \in 1..Len(u) : u[i] \in DigitSet
IsSumText(u) == AllDigits(u) \/ (Len(u) >= 2 /\ u[1] = "-" /\ AllDigits(Tail(u)))
IsMarkerBody(u) ==
    \/ AllDigits(u)
    \/ \E p \in 2..(Len(u) - 1) :
          /\ u[p] = MetaSum
          /\ AllDigits(SubSeq(u, 1, p - 1))
          /\ IsSumText(SubSeq(u, p + 1, Len(u)))
IsMarkerText(t) ==
    /\ Len(t) > Len(MetaOpen) + Len(MetaClose)
    /\ SubSeq(t, 1, Len(MetaOpen)) = MetaOpen
    /\ SubSeq(t, Len(t) - Len(MetaClose) + 1, Len(t)) = MetaClose
    /\ IsMarkerBody(SubSeq(t, Len(MetaOpen) + 1, Len(t) - Len(MetaClose)))
MarkerSpans(s) ==
    {sp \in (1..Len(s)) \X (1..Len(s)) :
        sp[1] <= sp[2] /\ IsMarkerText(SubSeq(s, sp[1], sp[2]))}
HasMarker(s) == MarkerSpans(s) # {}
FirstMarker(s) ==
    LET sp == CHOOSE a \in MarkerSpans(s) : \A b \in MarkerSpans(s) : a[1] <= b[1]
    IN  SubSeq(s, sp[1], sp[2])
\* The text after ;sum= in a marker, PyNone when the marker has no sum.
StoredSum(m) ==
    IF \E p \in 1..Len(m) : m[p] = MetaSum
    THEN PyStr(SubSeq(m, (CHOOSE p \in 1..Len(m) : m[p] = MetaSum) + 1,
                      Len(m) - Len(MetaClose)))
    ELSE PyNone

\* The id a marker text carries, and whether a back's first marker carries
\* an id and no sum.
MarkerId(m) == SubSeq(m, Len(MetaOpen) + 1, Len(MetaOpen) + RunLen(m, Len(MetaOpen) + 1, DigitSet))
IdOnly(back) == HasMarker(back) /\ StoredSum(FirstMarker(back)) = PyNone

\* A text without its markers, said without the scan: the tokens that lie
\* in no marker, in their order.
InMarker(s, i) == \E sp \in MarkerSpans(s) : sp[1] <= i /\ i <= sp[2]
RECURSIVE UnmarkedFrom(_, _)
UnmarkedFrom(s, i) ==
    IF i > Len(s) THEN <<>>
    ELSE (IF InMarker(s, i) THEN <<>> ELSE <<s[i]>>) \o UnmarkedFrom(s, i + 1)
Unmarked(s) == UnmarkedFrom(s, 1)

\* What splitting a text at a separator is, said without the scan: the
\* pieces joined by the separator give the text back, and each separator
\* is the first one after the piece before it.
RECURSIVE JoinWith(_, _)
JoinWith(bs, sep) ==
    IF Len(bs) = 1 THEN bs[1] ELSE bs[1] \o sep \o JoinWith(Tail(bs), sep)
Occurs(s, p) == \E i \in 1..Len(s) : StartsAt(s, i, p)
IsSplitOf(bs, text, sep) ==
    /\ Len(bs) >= 1
    /\ JoinWith(bs, sep) = text
    /\ ~Occurs(bs[Len(bs)], sep)
    /\ \A i \in 1..(Len(bs) - 1) : ~Occurs(bs[i] \o SubSeq(sep, 1, Len(sep) - 1), sep)

\* Splitting a text at separator lines only: a separator counts when it is
\* all of a line.
IsSeparatorLine(s, i) ==
    /\ StartsAt(s, i, FLASHCARD_SEPARATOR)
    /\ (i = 1 \/ s[i - 1] = "\n")
    /\ (i + Len(FLASHCARD_SEPARATOR) > Len(s) \/ s[i + Len(FLASHCARD_SEPARATOR)] = "\n")
RECURSIVE LineSplitFrom(_, _, _)
LineSplitFrom(s, i, cur) ==
    IF i > Len(s) THEN <<cur>>
    ELSE IF IsSeparatorLine(s, i)
         THEN <<cur>> \o LineSplitFrom(s, i + Len(FLASHCARD_SEPARATOR), <<>>)
         ELSE LineSplitFrom(s, i + 1, Append(cur, s[i]))
LineSplit(s) == LineSplitFrom(s, 1, <<>>)

\* The cards of a sequence of blocks: one for each block that holds the tag
\* exactly once.
TagPositions(b) == {i \in 1..Len(b) : b[i] \in TagTokens}
BeforeTag(b) == SubSeq(b, 1, (CHOOSE i \in TagPositions(b) : TRUE) - 1)
AfterTag(b) == SubSeq(b, (CHOOSE i \in TagPositions(b) : TRUE) + 1, Len(b))
IsCardBlock(b) == Cardinality(TagPositions(b)) = 1

CardsOf(blocks) ==
    [k \in 1..Len(SelectSeq(blocks, IsCardBlock)) |->
        Flashcard(Strip(BeforeTag(SelectSeq(blocks, IsCardBlock)[k])),
                  Strip(AfterTag(SelectSeq(blocks, IsCardBlock)[k])))]

\* update_content's loop with the cards taken in the order o.
RECURSIVE UpdateIn(_, _, _, _)
UpdateIn(cards, o, i, data) ==
    IF i > Len(o) THEN PyStr(data)
    ELSE LET r == UpdateMeta(cards[o[i]], data)
         IN  IF r = TypeError THEN TypeError ELSE UpdateIn(cards, o, i + 1, r.v)

\* The run has written note f.
Written(f) == \E i \in 1..Len(log) : log[i].ev = "write" /\ log[i].file = f

\* sync_medias has returned for the current note.
SyncMediasReturned ==
    pc = "update_content" \/ UpdateContentReturned \/ UpdateContentRaised

\* The run has called storeMediaFile with the filename for note f.
Pushed(f, name) ==
    \E j \in 1..Len(log) :
        log[j].ev = "storeMediaFile" /\ log[j].file = f /\ log[j].arg = <<name>>

\* The filename is in the vault's index and its file has content to read.
Resolves(name) ==
    app_json = "ok" /\ name \in DOMAIN attachments /\ attachments[name] = "content"

\* The storeMediaFile calls of the run with the filename for note f.
Pushes(f, name) ==
    {j \in 1..Len(log) :
        log[j].ev = "storeMediaFile" /\ log[j].file = f /\ log[j].arg = <<name>>}

\* The filenames a card embeds, in its front or in its back.
Embedded(c) == EmbedNames(c.front) \cup EmbedNames(c.back)

\* The positions in the log of the lookups that gave nothing to push.
FailedLookups ==
    {i \in 1..Len(log) : log[i].ev = "get_file" /\ log[i].out # "content"}

(***************************************************************************)
(* The properties.                                                         *)
(***************************************************************************)

\* C1: a run that follows runs in which the remote store answered every
\* call with success, the notes not edited in between, classifies every
\* card unchanged and writes no note.
C1_SecondRunIsNoOp ==
    (past.runs >= 1 /\ past.clean) =>
        \A i \in 1..Len(log) :
            /\ log[i].ev = "analyze" => log[i].out = STATE_NONE
            /\ log[i].ev # "write"

\* C2: every analysed card is in exactly one of three states: create when
\* its back holds no marker, unchanged when the fingerprint stored in its
\* marker is the decimal text of the computed one, update when the back
\* holds a marker and the stored fingerprint is any other text or is absent.
C2_StateClassification ==
    \A k \in 1..Len(flashcards) :
        Analysed(k) =>
            LET c == flashcards[k]
                same == StoredSum(FirstMarker(c.back)) = PyStr(IntToStr(c.card_sum.v))
            IN  /\ c.state \in {STATE_INSERT, STATE_UPDATE, STATE_NONE}
                /\ c.state = STATE_INSERT <=> ~HasMarker(c.back)
                /\ c.state = STATE_NONE <=> (HasMarker(c.back) /\ same)
                /\ c.state = STATE_UPDATE <=> (HasMarker(c.back) /\ ~same)

\* C2, its case: a card whose marker stores the computed fingerprint has
\* been analysed, and is unchanged.
C2_Witness ==
    \E k \in 1..Len(flashcards) :
        /\ Analysed(k)
        /\ HasMarker(flashcards[k].back)
        /\ flashcards[k].checksum = PyStr(IntToStr(flashcards[k].card_sum.v))
        /\ flashcards[k].state = STATE_NONE

\* C3: once update_content has returned for a note, the marker of every
\* created or updated card, read back from the note, gives the card's
\* remote id and the fingerprint that was written.
C3_MarkerRoundTrip ==
    UpdateContentReturned =>
        \A k \in 1..Len(flashcards) :
            flashcards[k].state # STATE_NONE =>
                /\ MarkerIn(files[file_idx], k).anki_id
                       = PyStr(Format(flashcards[k].anki_id))
                /\ MarkerIn(files[file_idx], k).checksum
                       = PyStr(Format(flashcards[k].card_sum))

\* C4: when update_content runs on a note whose created cards all got their
\* id from the remote store, it does not raise, and the note then holds, at
\* each created card's back, a marker with the new id and the fingerprint.
C4_CreateRewrite ==
    \A k \in 1..Len(flashcards) :
        ( /\ UpdateContentReturned \/ UpdateContentRaised
          /\ flashcards[k].state = STATE_INSERT
          /\ \A j \in 1..Len(flashcards) :
                flashcards[j].state = STATE_INSERT => flashcards[j].anki_id.t = "int" )
        => /\ ~UpdateContentRaised
           /\ MarkerIn(files[file_idx], k).anki_id = PyStr(Format(flashcards[k].anki_id))
           /\ MarkerIn(files[file_idx], k).checksum = PyStr(Format(flashcards[k].card_sum))

\* C5: at the end of a run in which the remote call of some card failed,
\* every card of every note that is not unchanged has been sent to the
\* remote store, and the marker of each whose own call did not fail holds
\* its computed fingerprint.
C5_FailureIsolation ==
    (RunEnded /\ \E i \in Calls(log) : log[i].out \in {"error", "raise"}) =>
        \A f \in 1..Len(files) :
            \A k \in 1..Len(ParseFlashcards(before[f])) :
                Analyze(ParseFlashcards(before[f])[k]).state # STATE_NONE =>
                    /\ \E j \in Calls(log) : log[j].file = f /\ log[j].card = k
                    /\ (\E j \in Calls(log) :
                            log[j].file = f /\ log[j].card = k /\ log[j].out = "ok")
                       => MarkerIn(files[f], k).checksum
                              = PyStr(Format(Analyze(ParseFlashcards(before[f])[k]).card_sum))

\* C6: at the end of a run, the marker of a card whose create or update
\* call failed is what it was before the run.
C6_StaleMarkerOnFailure ==
    RunEnded =>
        \A i \in Calls(log) :
            log[i].out \in {"error", "raise"} =>
                MarkerIn(files[log[i].file], log[i].card)
                    = MarkerIn(before[log[i].file], log[i].card)

\* C7: an unchanged card has no rendered text and no media, update_meta
\* returns any text unmodified for it, and every create or update call of
\* the run is for a card that analyze did not find unchanged.
C7_UnchangedIsNoOp ==
    /\ \A k \in 1..Len(flashcards) :
          flashcards[k].state = STATE_NONE =>
              /\ flashcards[k].front_html = PyNone
              /\ flashcards[k].back_html = PyNone
              /\ flashcards[k].medias = {}
              /\ \A text \in {original_content} \cup {files[f] : f \in 1..Len(files)} :
                    UpdateMeta(flashcards[k], text) = PyStr(text)
    /\ \A i \in Calls(log) :
          \E j \in 1..(i - 1) :
              /\ log[j].ev = "analyze"
              /\ log[j].file = log[i].file
              /\ log[j].card = log[i].card
              /\ log[j].out # STATE_NONE
    /\ \A j \in 1..Len(log) :
          (log[j].ev = "analyze" /\ log[j].out = STATE_NONE) =>
              ~\E i \in Calls(log) : log[i].file = log[j].file /\ log[i].card = log[j].card

\* C7, its case: a card was analysed unchanged and update_content has
\* returned for its note.
C7_Witness ==
    /\ UpdateContentReturned
    /\ \E k \in 1..Len(flashcards) :
          Analysed(k) /\ flashcards[k].state = STATE_NONE

\* C8: no run calls addNote for a card that addNote has created a note for
\* in an earlier run (here: in earlier runs whose every remote call was
\* answered with success).
C8_CreatedOnce ==
    past.clean =>
        \A i \in 1..Len(log) :
            log[i].ev = "addNote" => <<log[i].file, log[i].card>> \notin past.created

\* C9: when update_content starts, taking the cards in any order gives the
\* text that taking them in the list's order gives.
C9_OrderIndependent ==
    pc = "update_content" =>
        \A o \in Orders(1..Len(flashcards)) :
            UpdateIn(flashcards, o, 1, original_content)
                = UpdateAll(flashcards, 1, original_content)

\* C10: _parse_flashcards returns, in the order of the text, one card for
\* each block that holds the tag exactly once, with the trimmed text before
\* the tag as front and the trimmed text after it as back, and nothing else;
\* the blocks are the pieces of the text between its separators.  The
\* example text gives the one card front1/back1; a text without separator
\* gives at most one card.
C10_Extraction ==
    JustParsed =>
        LET blocks == Split(original_content, FLASHCARD_SEPARATOR)
            cardBlocks == SelectSeq(blocks, IsCardBlock)
        IN  /\ IsSplitOf(blocks, original_content, FLASHCARD_SEPARATOR)
            /\ Len(flashcards) = Len(cardBlocks)
            /\ \A k \in 1..Len(cardBlocks) :
                  flashcards[k] = Flashcard(Strip(BeforeTag(cardBlocks[k])),
                                            Strip(AfterTag(cardBlocks[k])))
            /\ original_content = ExampleText
                   => flashcards = <<Flashcard(<<"front1">>, <<"back1">>)>>
            /\ ~Occurs(original_content, FLASHCARD_SEPARATOR) => Len(flashcards) <= 1

\* C10, its case: a text of three blocks, the first and the last of which
\* are no card, has been parsed into one card.
C10_Witness ==
    /\ JustParsed
    /\ Len(Split(original_content, FLASHCARD_SEPARATOR)) = 3
    /\ ~IsCardBlock(Split(original_content, FLASHCARD_SEPARATOR)[1])
    /\ ~IsCardBlock(Split(original_content, FLASHCARD_SEPARATOR)[3])
    /\ Len(flashcards) = 1

\* C11: once update_content has returned for a note, the note was written
\* if and only if the rewritten text differs from the text that was read,
\* and it then holds the rewritten text; a note whose cards are all
\* unchanged, or that has no card, was not written; a note that was not
\* written holds what it held when the run began.
C11_WriteBackOnChange ==
    /\ UpdateContentReturned =>
          /\ Written(file_idx)
                 <=> UpdateAll(flashcards, 1, original_content).v # original_content
          /\ files[file_idx] = UpdateAll(flashcards, 1, original_content).v
          /\ (\A k \in 1..Len(flashcards) : flashcards[k].state = STATE_NONE)
                 => (~Written(file_idx) /\ files[file_idx] = original_content)
    /\ \A f \in 1..Len(files) : ~Written(f) => files[f] = before[f]

\* C11, its case: update_content has returned for a note and has written it,
\* and for another note of the run it has returned without writing.
C11_Witness ==
    /\ UpdateContentReturned
    /\ Written(file_idx)
    /\ files[file_idx] # before[file_idx]
    /\ \E f \in 1..(file_idx - 1) : ~Written(f)

\* C12: the fingerprint of an analysed card is the fingerprint of the card
\* with the same front and, as back, its back without the markers, trimmed:
\* cards that differ only in the marker's id, sum, presence or place have
\* one fingerprint.  Computing it again gives the same value.
C12_FingerprintStable ==
    \A k \in 1..Len(flashcards) :
        Analysed(k) =>
            /\ flashcards[k].card_sum
                   = PyInt(GenerateCardSum(Flashcard(flashcards[k].front,
                                                     Strip(Unmarked(flashcards[k].back)))))
            /\ GenerateCardSum(flashcards[k]) = flashcards[k].card_sum.v

\* C12, its case: a card whose back starts with a marker, the text x after
\* it, has been analysed and has the fingerprint of the card q/x.
C12_Witness ==
    \E k \in 1..Len(flashcards) :
        /\ Analysed(k)
        /\ flashcards[k].back[1] = "<!"
        /\ HasMarker(flashcards[k].back)
        /\ Strip(Unmarked(flashcards[k].back)) = <<"x">>
        /\ flashcards[k].card_sum = PyInt(crc32(Front \o <<"x">>))

\* C14: a run that has listed its folder does not abort: no exception
\* leaves main, and when the run has ended every note has been processed.
C14_OnlyListingIsFatal ==
    /\ pc # "crashed"
    /\ \A i \in 1..Len(log) : log[i].ev # "raise"
    /\ RunEnded => file_idx = Len(files)

\* C15: the cards _parse_flashcards returns are the cards of the blocks
\* that the separator lines of the text delimit: a separator inside a line
\* splits nothing.
C15_SeparatorLinesOnly ==
    JustParsed => flashcards = CardsOf(LineSplit(original_content))

\* C18: a card whose marker carries an id and no sum is classified update,
\* with the marker's id as its remote id; once update_content has returned
\* for its note, its marker carries that id and the computed fingerprint.
C18_IdOnlyMarker ==
    \A k \in 1..Len(flashcards) :
        (Analysed(k) /\ IdOnly(flashcards[k].back)) =>
            /\ flashcards[k].state = STATE_UPDATE
            /\ flashcards[k].anki_id = PyStr(MarkerId(FirstMarker(flashcards[k].back)))
            /\ UpdateContentReturned =>
                  /\ MarkerIn(files[file_idx], k).anki_id
                         = PyStr(MarkerId(FirstMarker(flashcards[k].back)))
                  /\ MarkerIn(files[file_idx], k).checksum
                         = PyStr(IntToStr(flashcards[k].card_sum.v))

\* C19: the text update_content produces, and so every note at every
\* moment of a run, is, with its markers removed, the text the run found
\* with its markers removed.
C19_OnlyMarkersChange ==
    /\ \A f \in 1..Len(files) :
          files[f] = before[f] \/ MetaSub(files[f]) = MetaSub(before[f])
    /\ (pc = "update_content" /\ UpdateAll(flashcards, 1, original_content) # TypeError)
           => MetaSub(UpdateAll(flashcards, 1, original_content).v)
                  = MetaSub(original_content)

\* C19, its case: a note of a card and a block that is no card has been
\* rewritten.
C19_Witness ==
    \E f \in 1..Len(files) :
        /\ files[f] # before[f]
        /\ Len(Split(files[f], FLASHCARD_SEPARATOR)) = 2
        /\ Len(ParseFlashcards(files[f])) = 1

\* C20: every updateNoteFields call carries, as a number, the id that the
\* card's marker held when the run began; and at every moment the marker of
\* a card that had one is a marker with the same id text.
C20_UpdateKeepsId ==
    /\ \A i \in 1..Len(log) :
          log[i].ev = "updateNoteFields" =>
              log[i].arg = IntToStr(StrToInt(MarkerId(FirstMarker(
                               ParseFlashcards(before[log[i].file])[log[i].card].back))))
    /\ \A f \in 1..Len(files) :
          \A k \in 1..Len(ParseFlashcards(before[f])) :
              HasMarker(ParseFlashcards(before[f])[k].back) =>
                  /\ k <= Len(ParseFlashcards(files[f]))
                  /\ HasMarker(ParseFlashcards(files[f])[k].back)
                  /\ MarkerId(FirstMarker(ParseFlashcards(files[f])[k].back))
                         = MarkerId(FirstMarker(ParseFlashcards(before[f])[k].back))
                  /\ MarkerIn(files[f], k).anki_id
                         = MarkerIn(before[f], k).anki_id

\* C20, its case: a card whose marker holds the id 07 has been sent as an
\* update of note 7 and its marker has been rewritten.
C20_Witness ==
    /\ UpdateContentReturned
    /\ Written(file_idx)
    /\ \E i \in 1..Len(log) :
          /\ log[i].ev = "updateNoteFields"
          /\ log[i].arg = <<"7">>
          /\ MarkerIn(files[file_idx], log[i].card).anki_id = PyStr(<<"0", "7">>)
          /\ MarkerIn(files[file_idx], log[i].card).meta_value
                 # MarkerIn(before[file_idx], log[i].card).meta_value

C16_MediaOfAllCards ==
    UpdateContentReturned =>
        /\ \A k \in 1..Len(flashcards) :
              \A name \in Embedded(flashcards[k]) :
                  Resolves(name) => Pushed(file_idx, name)
        /\ \A name \in MediaNames : Cardinality(Pushes(file_idx, name)) <= 1

\* C16: once sync_medias has returned for a note, every file that a card
\* classified create or update embeds, in its front or in its back, and
\* that resolves has been pushed; no filename was pushed twice for the
\* note; and nothing was pushed that no such card embeds: the files of
\* unchanged cards are not pushed.
C16_MediaOfChangedCards ==
    /\ SyncMediasReturned =>
          \A k \in 1..Len(flashcards) :
              flashcards[k].state # STATE_NONE =>
                  \A name \in Embedded(flashcards[k]) :
                      Resolves(name) => Pushed(file_idx, name)
    /\ \A name \in MediaNames :
          /\ Cardinality(Pushes(file_idx, name)) <= 1
          /\ Pushed(file_idx, name) =>
                \E k \in 1..Len(flashcards) :
                    /\ flashcards[k].state # STATE_NONE
                    /\ name \in Embedded(flashcards[k])

\* C16, its case: two changed cards of a note embed d.png, which was pushed
\* once, and the second embeds e.png in its front, which was pushed.
C16_Witness ==
    /\ SyncMediasReturned
    /\ Len(flashcards) = 2
    /\ \A k \in 1..2 :
          flashcards[k].state # STATE_NONE /\ "d.png" \in Embedded(flashcards[k])
    /\ Cardinality(Pushes(file_idx, "d.png")) = 1
    /\ "e.png" \in EmbedNames(flashcards[2].front)
    /\ Pushed(file_idx, "e.png")

\* C17: in a vault whose app.json is missing, is not JSON or has no
\* attachmentFolderPath, the index, once built, is empty, every lookup
\* finds the filename absent, nothing is pushed, reading app.json raises
\* nothing, and a run that has looked up the files of a note goes on to
\* update_content.
C17_ConfigFailureEmptyIndex ==
    app_json \in {"missing", "invalid", "noentry"} =>
        /\ dict_cache \in {PyNone, PyDict({})}
        /\ (\E i \in 1..Len(log) : log[i].ev = "get_file") => dict_cache = PyDict({})
        /\ \A i \in 1..Len(log) :
              /\ log[i].ev = "get_file" => log[i].out = "absent"
              /\ log[i].ev # "storeMediaFile"
              /\ log[i].ev = "raise" => log[i].arg # <<"app.json">>
        /\ (Len(log) > 0 /\ log[Len(log)].ev \in {"get_file", "app.json"})
              => pc = "update_content"

\* C17, its case: app.json is not JSON, the attachment folder holds the
\* files the note embeds, they were looked up, and the run has ended with
\* the note rewritten.
C17_Witness ==
    /\ app_json = "invalid"
    /\ \A name \in MediaNames : attachments[name] = "content"
    /\ pc = "done"
    /\ Written(file_idx)
    /\ \A name \in MediaNames :
          \E i \in 1..Len(log) :
              log[i].ev = "get_file" /\ log[i].arg = <<name>> /\ log[i].out = "absent"

====
